---- MODULE Spec2Model ----
(***************************************************************************)
(* Model of the slide creator backend (src/main.py): the two-stage deck    *)
(* generation (/generate), the keyword-routed patch engine (/patch) and    *)
(* the deck exporter (/export).                                            *)
(*                                                                         *)
(* Text.  A Python str is modelled as a sequence of chunks; a chunk is a   *)
(* run of characters that the program's string operations treat as a unit. *)
(* The empty str is << >>.  The chunks and the text each stands for:       *)
(*   "Delete"    Delete          "delete"  delete                          *)
(*   "Add"       Add             "add"     add                             *)
(*   "sakujo"    U+524A U+9664          (delete keyword, src line 310)     *)
(*   "keshite"   U+6D88 U+3057 U+3066   (delete keyword, src line 310)     *)
(*   "tsuika"    U+8FFD U+52A0          (add keyword, src line 315)        *)
(*   "taitoru"   U+30BF U+30A4 U+30C8 U+30EB  (title keyword, line 322)    *)
(*   "henkou"    U+5909 U+66F4          (change keyword, line 322)         *)
(*   "->"        U+2192                 (arrow separator, line 324)        *)
(*   "kajougaki" U+7B87 U+6761 U+66F8 U+304D  (bullet keyword, line 328)   *)
(*   "naiyou"    U+5185 U+5BB9          (content keyword, line 328)        *)
(*   "X" / "x"   an upper-case / lower-case latin letter other than the    *)
(*               letters of the keywords                                   *)
(*   " "         a space                "NL"  a line feed                  *)
(*   "bulb"      U+1F4A1                (marker of the default rule)       *)
(*   "wo_henshuu" the rest of the new slide's bullet after "naiyou"        *)
(*   "new_slide" the new slide's title (line 318)                          *)
(*   "shousai"   the placeholder bullet of stage 2 (lines 249, 256)        *)
(*   "t1","t2","m1","b1" titles, message lines and body bullets returned   *)
(*               by the external service                                   *)
(*   "FJ"        the fence ```json      "F"   the fence ```                *)
(*   "G"         prose that is not JSON                                    *)
(* No concatenation of these chunks creates an occurrence of a keyword     *)
(* that is not one of the chunks.                                          *)
(***************************************************************************)
EXTENDS Integers, Sequences, FiniteSets, TLC

VARIABLES
    patchPc,      \* /patch: "idle" | "done"
    reqSlides,    \* /patch: request.slides of the call in progress / last call
    reqPrompt,    \* /patch: request.prompt of that call
    resSlides,    \* /patch: SlidesState.slides returned by that call
    nPatches,     \* client session: number of /patch round trips made
    genPc,        \* /generate: "idle" | "stage2" | "done" | "failed"
    clientOk,     \* anthropic_client is configured (src lines 32-39)
    nSections,    \* /generate: len(request.sections)
    msgLines,     \* /generate: message_line_slides returned by stage 1
    genIdx,       \* /generate: index of the next stage-2 loop iteration
    allSlides,    \* /generate: all_slides built so far by stage 2
    callLog,      \* /generate: outcome of each stage-2 external call made
    files,        \* /export: EXPORT_DIR, a function name -> document written
    exportLog     \* /export: per finished call, the request, response and status

patchVars == <<patchPc, reqSlides, reqPrompt, resSlides, nPatches>>
genVars == <<genPc, clientOk, nSections, msgLines, genIdx, allSlides, callLog>>
exportVars == <<files, exportLog>>
vars == <<patchVars, genVars, exportVars>>

----------------------------------------------------------------------------
(* Bounds of the model *)

MaxPromptLen == 4
MaxDeckLen == 2
MaxPatches == 3
MaxSections == 1
MaxSlides == 2
MaxBody == 1
MaxExportSlides == 1
MaxExportBullets == 2
MaxExports == 2

----------------------------------------------------------------------------
(* Python str operations on chunk sequences *)

Whitespace == {" ", "NL"}

\* str.lower() of one chunk
LowerChunk(c) ==
    CASE c = "Delete" -> "delete"
      [] c = "Add" -> "add"
      [] c = "X" -> "x"
      [] OTHER -> c

\* str.lower()
Lower(s) == [i \in 1..Len(s) |-> LowerChunk(s[i])]

\* kw in s
Contains(s, kw) == \E i \in 1..Len(s) : s[i] = kw

\* s.replace(kw, "")
Replace(s, kw) == SelectSeq(s, LAMBDA c : c # kw)

RECURSIVE LStrip(_)
LStrip(s) == IF s # << >> /\ Head(s) \in Whitespace THEN LStrip(Tail(s)) ELSE s

RECURSIVE RStrip(_)
RStrip(s) ==
    IF s # << >> /\ s[Len(s)] \in Whitespace
    THEN RStrip(SubSeq(s, 1, Len(s) - 1))
    ELSE s

\* s.strip()
Strip(s) == RStrip(LStrip(s))

\* index of the first occurrence of sep in s, 0 if none
RECURSIVE FirstIndex(_, _, _)
FirstIndex(s, sep, i) ==
    IF i > Len(s) THEN 0
    ELSE IF s[i] = sep THEN i
    ELSE FirstIndex(s, sep, i + 1)

\* s.split(sep): the pieces between the occurrences of sep, at least one piece
RECURSIVE Split(_, _)
Split(s, sep) ==
    LET k == FirstIndex(s, sep, 1) IN
    IF k = 0 THEN << s >>
    ELSE << SubSeq(s, 1, k - 1) >> \o Split(SubSeq(s, k + 1, Len(s)), sep)

----------------------------------------------------------------------------
(* Data model *)

Slide(t, bs) == [title |-> t, bullets |-> bs]

\* list with its last element removed (list.pop())
Pop(l) == SubSeq(l, 1, Len(l) - 1)

----------------------------------------------------------------------------
(* /patch: patch_slides, src lines 300-340 *)

KwDelete == {"sakujo", "keshite", "delete"}
KwAdd == {"tsuika", "add"}
KwTitle == "taitoru"
KwChange == "henkou"
Arrow == "->"
KwBullet == "kajougaki"
KwContent == "naiyou"
Marker == << "bulb", " " >>
NewSlide == Slide(<< "new_slide" >>, << << "naiyou", "wo_henshuu" >> >>)

HasDelete(prompt) == \E kw \in KwDelete : Contains(prompt, kw)
HasAdd(prompt) == \E kw \in KwAdd : Contains(prompt, kw)
HasRetitle(prompt) == Contains(prompt, KwTitle) /\ Contains(prompt, KwChange)
HasBullet(prompt) == Contains(prompt, KwBullet) \/ Contains(prompt, KwContent)

\* DeleteBranch with the floor off by one (len(slides) >= 1)
DeleteBranchNoFloor(slides) == IF Len(slides) >= 1 THEN Pop(slides) ELSE slides

\* lines 311-313
DeleteBranch(slides) == IF Len(slides) > 1 THEN Pop(slides) ELSE slides

\* lines 316-320
AddBranch(slides) == Append(slides, NewSlide)

\* lines 323-326; prompt is the lower-cased instruction
RetitleBranch(slides, prompt) ==
    IF slides # << >> /\ Contains(prompt, Arrow)
    THEN [slides EXCEPT ![1].title = Strip(Split(prompt, Arrow)[2])]
    ELSE slides

\* line 331; prompt is the lower-cased instruction
NewBullet(prompt) == Strip(Replace(Replace(prompt, KwBullet), "tsuika"))

\* lines 329-333
BulletBranch(slides, prompt) ==
    IF Len(slides) > 1
    THEN IF NewBullet(prompt) # << >>
         THEN [slides EXCEPT ![Len(slides)].bullets = Append(@, NewBullet(prompt))]
         ELSE slides
    ELSE slides

\* DefaultBranch that starts a slide when there is none to append to
DefaultBranchCreates(slides, raw) ==
    IF slides # << >>
    THEN [slides EXCEPT ![Len(slides)].bullets = Append(@, Marker \o raw)]
    ELSE << Slide(<< >>, << Marker \o raw >>) >>

\* lines 336-338; raw is request.prompt as submitted
DefaultBranch(slides, raw) ==
    IF slides # << >>
    THEN [slides EXCEPT ![Len(slides)].bullets = Append(@, Marker \o raw)]
    ELSE slides

\* Route with the add test placed before the delete test
RouteAddFirst(raw) ==
    LET prompt == Lower(raw) IN
    IF HasAdd(prompt) THEN "add"
    ELSE IF HasDelete(prompt) THEN "delete"
    ELSE IF HasRetitle(prompt) THEN "retitle"
    ELSE IF HasBullet(prompt) THEN "bullet"
    ELSE "default"

\* the branch of the if/elif chain of lines 310-335 that runs
Route(raw) ==
    LET prompt == Lower(raw) IN
    IF HasDelete(prompt) THEN "delete"
    ELSE IF HasAdd(prompt) THEN "add"
    ELSE IF HasRetitle(prompt) THEN "retitle"
    ELSE IF HasBullet(prompt) THEN "bullet"
    ELSE "default"

\* lines 306-340
patch_slides(slides, raw) ==
    LET prompt == Lower(raw)
        branch == Route(raw)
    IN  CASE branch = "delete" -> DeleteBranch(slides)
          [] branch = "add" -> AddBranch(slides)
          [] branch = "retitle" -> RetitleBranch(slides, prompt)
          [] branch = "bullet" -> BulletBranch(slides, prompt)
          [] OTHER -> DefaultBranch(slides, raw)

----------------------------------------------------------------------------
(* Inputs of /patch *)

SeqsUpTo(S, n) == UNION {[1..k -> S] : k \in 0..n}

\* chunks an instruction is made of
Alphabet ==
    {"Delete", "Add", "taitoru", "henkou", "->", "kajougaki", "naiyou", "X", " "}

\* request.prompt
Prompts == SeqsUpTo(Alphabet, MaxPromptLen)

\* slides a client holds: a generated slide, and a slide without bullets
RequestSlides == {Slide(<< "t1" >>, << << "m1" >> >>), Slide(<< "t2" >>, << >>)}

\* request.slides
RequestDecks == SeqsUpTo(RequestSlides, MaxDeckLen)

\* instructions of a client session: one or two per combination of rules
SessionPrompts ==
    { << "Delete" >>,
      << "sakujo", " ", "tsuika" >>,
      << "tsuika" >>,
      << "taitoru", "henkou", "->", "X" >>,
      << "taitoru", "henkou" >>,
      << "kajougaki", "X" >>,
      << "naiyou" >>,
      << "X" >>,
      << >> }

----------------------------------------------------------------------------
(* /patch as a state machine *)

\* one POST /patch: the whole handler, lines 300-340
PatchCall(slides, raw) ==
    /\ patchPc = "idle"
    /\ patchPc' = "done"
    /\ reqSlides' = slides
    /\ reqPrompt' = raw
    /\ resSlides' = patch_slides(slides, raw)
    /\ UNCHANGED <<nPatches, genVars, exportVars>>

\* the response has been sent; the server keeps nothing of the request
PatchReturn ==
    /\ patchPc = "done"
    /\ patchPc' = "idle"
    /\ reqSlides' = << >>
    /\ reqPrompt' = << >>
    /\ resSlides' = << >>
    /\ UNCHANGED <<nPatches, genVars, exportVars>>

\* a client session: the client resends the deck the last response gave it
SessionPatch(raw) ==
    /\ nPatches < MaxPatches
    /\ nPatches' = nPatches + 1
    /\ reqSlides' = resSlides
    /\ reqPrompt' = raw
    /\ resSlides' = patch_slides(resSlides, raw)
    /\ UNCHANGED <<patchPc, genVars, exportVars>>

----------------------------------------------------------------------------
(* /generate, stage 1: generate_message_lines, src lines 89-155 *)

FenceJson == "FJ"
Fence == "F"

\* lines 140-143: the text handed to json.loads
ExtractJson(content) ==
    IF Contains(content, FenceJson)
    THEN Strip(Split(Split(content, FenceJson)[2], Fence)[1])
    ELSE IF Contains(content, Fence)
    THEN Strip(Split(Split(content, Fence)[2], Fence)[1])
    ELSE content

\* A stage-1 response: kind "raise" (messages.create raises), "no_content"
\* (response.content is empty), "not_text" (content[0] has no .text) or "text";
\* layout is the text, in which "DOC" stands for the one JSON document doc.

\* line 146, json.loads: the text parses when it is that one document, with
\* nothing but white space before and after it
JsonLoads(text) == Strip(text) = << "DOC" >>

\* lines 128-155: the message lines, or "HTTPException"
generate_message_lines(resp) ==
    IF resp.kind # "text" THEN [ok |-> FALSE, lines |-> << >>]
    ELSE IF ~JsonLoads(ExtractJson(resp.layout)) THEN [ok |-> FALSE, lines |-> << >>]
    ELSE IF resp.doc.kind \in {"invalid", "array"} THEN [ok |-> FALSE, lines |-> << >>]
    ELSE IF resp.doc.kind = "nokey" THEN [ok |-> TRUE, lines |-> << >>]
    ELSE IF \E i \in 1..Len(resp.doc.slides) : ~resp.doc.slides[i].ok
    THEN [ok |-> FALSE, lines |-> << >>]
    ELSE [ok |-> TRUE,
          lines |-> [i \in 1..Len(resp.doc.slides) |->
                        [title |-> resp.doc.slides[i].title,
                         message_line |-> resp.doc.slides[i].message_line]]]

----------------------------------------------------------------------------
(* /generate, stage 2: generate_slide_bodies_with_skills, src lines 158-267 *)

Placeholder == << "shousai" >>

\* A stage-2 response: kind "raise" (messages.create raises), "empty" (no
\* content block), "text" (content[0] is not a tool_use block), "wrong_tool"
\* (tool_use under another name), "tool" (tool_use generate_slide_body whose
\* input holds the list bullets), "nokey" (its input holds no bullets),
\* "badtype" (its bullets are not a list of str: line 238 or Slide() raises).
\* lines 214-265: one iteration of the loop, the list all_slides after it
SlideBody(all, msg, resp) ==
    CASE resp.kind \in {"raise", "badtype"} ->
            Append(all, Slide(msg.title, << msg.message_line >>))
      [] resp.kind = "empty" ->
            Append(all, Slide(msg.title, << msg.message_line, Placeholder >>))
      [] resp.kind = "text" -> all
      [] resp.kind = "wrong_tool" ->
            Append(all, Slide(msg.title, << msg.message_line, Placeholder >>))
      [] resp.kind = "nokey" ->
            Append(all, Slide(msg.title, << msg.message_line >>))
      [] OTHER ->
            Append(all, Slide(msg.title, << msg.message_line >> \o resp.bullets))

----------------------------------------------------------------------------
(* Inputs of /generate: what the external service may answer *)

Titles == {<< "t1" >>, << "t2" >>}
MsgTexts == {<< >>, << "m1" >>}
BodyTexts == {<< "b1" >>}

BadEntry == [ok |-> FALSE, title |-> << >>, message_line |-> << >>]
Entries ==
    {[ok |-> TRUE, title |-> t, message_line |-> m] : t \in Titles, m \in MsgTexts}
        \cup {BadEntry}

Docs ==
    {[kind |-> k, slides |-> << >>] : k \in {"invalid", "array", "nokey"}}
        \cup {[kind |-> "slides", slides |-> sl] : sl \in SeqsUpTo(Entries, MaxSlides)}

Layouts ==
    { << "DOC" >>, << "FJ", "DOC", "F" >>, << "F", "DOC", "F" >>,
      << "G", "FJ", "DOC", "F", "G" >>, << "G", "DOC" >>, << "FJ", "F" >>,
      << "F", "G", "F", "DOC" >>, << "DOC", "NL" >>, << " ", "DOC" >>,
      << "NL", "DOC", " ", "NL" >>, << "DOC", " ", "G" >>,
      << "FJ", "NL", "DOC", "NL", "F" >> }

NoDoc == [kind |-> "invalid", slides |-> << >>]
Stage1Responses ==
    {[kind |-> k, layout |-> << >>, doc |-> NoDoc] :
        k \in {"raise", "no_content", "not_text"}}
        \cup {[kind |-> "text", layout |-> l, doc |-> d] : l \in Layouts, d \in Docs}

Stage2Responses ==
    {[kind |-> k, bullets |-> << >>] :
        k \in {"raise", "empty", "text", "wrong_tool", "nokey", "badtype"}}
        \cup {[kind |-> "tool", bullets |-> b] : b \in SeqsUpTo(BodyTexts, MaxBody)}

----------------------------------------------------------------------------
(* /generate as a state machine *)

\* POST /generate up to the end of stage 1: lines 285-296, 277, 89-155
GenerateStart(n, resp) ==
    /\ genPc = "idle"
    /\ nSections' = n
    /\ genIdx' = 1
    /\ allSlides' = << >>
    /\ callLog' = << >>
    /\ IF ~clientOk
       THEN genPc' = "failed" /\ msgLines' = << >>
       ELSE LET r == generate_message_lines(resp) IN
            /\ genPc' = IF r.ok THEN "stage2" ELSE "failed"
            /\ msgLines' = r.lines
    /\ UNCHANGED <<clientOk, patchVars, exportVars>>

\* one iteration of the loop of line 191, with the answer of its external call
Stage2Call(resp) ==
    /\ genPc = "stage2"
    /\ genIdx <= Len(msgLines)
    /\ allSlides' = SlideBody(allSlides, msgLines[genIdx], resp)
    /\ callLog' = Append(callLog, resp)
    /\ genIdx' = genIdx + 1
    /\ UNCHANGED <<genPc, clientOk, nSections, msgLines, patchVars, exportVars>>

\* lines 267, 282, 297: the deck is returned
GenerateFinish ==
    /\ genPc = "stage2"
    /\ genIdx > Len(msgLines)
    /\ genPc' = "done"
    /\ UNCHANGED <<clientOk, nSections, msgLines, genIdx, allSlides, callLog,
                   patchVars, exportVars>>

\* the response (the deck, or HTTP 500) has been sent
GenerateReturn ==
    /\ genPc \in {"done", "failed"}
    /\ genPc' = "idle"
    /\ nSections' = 0
    /\ msgLines' = << >>
    /\ genIdx' = 1
    /\ allSlides' = << >>
    /\ callLog' = << >>
    /\ UNCHANGED <<clientOk, patchVars, exportVars>>

----------------------------------------------------------------------------
(* /export: export_pptx, src lines 343-386.  The document is modelled as   *)
(* python-pptx builds it: a text frame is a list of paragraphs, a          *)
(* paragraph a list of runs and line breaks.                               *)

LineFeed == "NL"

Run(text, bold) == [kind |-> "r", text |-> text, bold |-> bold]
Break == [kind |-> "br", text |-> << >>, bold |-> FALSE]
Paragraph(elems) == [elems |-> elems, level |-> 0]

\* paragraph.runs
Runs(p) == SelectSeq(p.elems, LAMBDA e : e.kind = "r")

\* the elements python-pptx appends for a text: a line feed becomes a line
\* break, and a run that would be empty is not added
RECURSIVE AppendText(_)
AppendText(pieces) ==
    IF pieces = << >> THEN << >>
    ELSE (IF Head(pieces) = << >> THEN << >> ELSE << Run(Head(pieces), FALSE) >>)
         \o (IF Len(pieces) > 1 THEN << Break >> ELSE << >>)
         \o AppendText(Tail(pieces))

\* line 370, text_frame.text = bullet: one paragraph per line of the text
TextFrameSetText(text) ==
    LET lines == Split(text, LineFeed) IN
    [i \in 1..Len(lines) |-> Paragraph(AppendText(<< lines[i] >>))]

\* lines 374-376, add_paragraph() and p.text = bullet: one paragraph
AddParagraph(frame, text) ==
    Append(frame, Paragraph(AppendText(Split(text, LineFeed))))

\* the body placeholder of a new slide, and of a cleared text frame (line 366)
EmptyFrame == << Paragraph(<< >>) >>

\* line 372, run.font.bold = True on paragraphs[0].runs[0]; the first
\* paragraph of a text set by line 370 holds that one run and nothing else
SetFirstRunBold(frame) ==
    << Paragraph(<< Run(frame[1].elems[1].text, TRUE) >>) >>
        \o SubSeq(frame, 2, Len(frame))

\* lines 368-376 for the bullets from index i on; not ok when
\* paragraphs[0].runs[0] of line 371 does not exist (IndexError)
RECURSIVE FillBody(_, _, _)
FillBody(frame, bullets, i) ==
    IF i > Len(bullets) THEN [ok |-> TRUE, frame |-> frame]
    ELSE IF i = 1
    THEN LET f == TextFrameSetText(bullets[1]) IN
         IF Runs(f[1]) = << >>
         THEN [ok |-> FALSE, frame |-> f]
         ELSE FillBody(SetFirstRunBold(f), bullets, 2)
    ELSE FillBody(AddParagraph(frame, bullets[i]), bullets, i + 1)

\* lines 355-376: the slide unit of one input slide
RenderSlide(slide) ==
    IF slide.bullets = << >>
    THEN [ok |-> TRUE, title |-> slide.title, body |-> EmptyFrame]
    ELSE LET b == FillBody(EmptyFrame, slide.bullets, 1) IN
         [ok |-> b.ok, title |-> slide.title, body |-> b.frame]

\* lines 349-376: the presentation, ok only if no slide raised
Render(slides) ==
    LET units == [i \in 1..Len(slides) |-> RenderSlide(slides[i])] IN
    [ok |-> \A i \in 1..Len(slides) : units[i].ok,
     units |-> [i \in 1..Len(slides) |->
                   [title |-> units[i].title, body |-> units[i].body]]]

\* uuid.uuid4(): the first 8 hex digits and the remaining 24
UuidPrefixes == {"0a1b2c3d", "4e5f6a7b"}
UuidTails == {"tail1", "tail2"}
Uuids == [prefix : UuidPrefixes, tail : UuidTails]

\* line 379
Filename(uuid) == << "slide_", uuid.prefix, ".pptx" >>

----------------------------------------------------------------------------
(* Inputs of /export *)

ExportTexts == {<< >>, << "m1" >>, << "m1", "NL", "b1" >>}
ExportSlides ==
    {Slide(<< "t1" >>, bs) : bs \in SeqsUpTo(ExportTexts, MaxExportBullets)}
ExportDecks == SeqsUpTo(ExportSlides, MaxExportSlides)

----------------------------------------------------------------------------
(* /export as a state machine *)

NoFile == << >>

\* lines 343-386, the whole handler (it has no await, so nothing runs
\* between its steps): the document is built, named and written and the name
\* returned; a raise ends the call before anything is written
export_pptx(slides, uuid) ==
    /\ Len(exportLog) < MaxExports
    /\ LET prs == Render(slides) IN
       IF prs.ok
       THEN /\ files' = [n \in DOMAIN files \cup {Filename(uuid)} |->
                            IF n = Filename(uuid) THEN prs.units ELSE files[n]]
            /\ exportLog' = Append(exportLog,
                   [slides |-> slides, ok |-> TRUE, uuid |-> uuid,
                    filename |-> Filename(uuid), units |-> prs.units])
       ELSE /\ exportLog' = Append(exportLog,
                   [slides |-> slides, ok |-> FALSE, uuid |-> uuid,
                    filename |-> NoFile, units |-> << >>])
            /\ UNCHANGED files
    /\ UNCHANGED <<patchVars, genVars>>

----------------------------------------------------------------------------
(* Specifications *)

NextPatch ==
    \/ /\ patchPc = "idle"
       /\ \E slides \in RequestDecks, raw \in Prompts : PatchCall(slides, raw)
    \/ PatchReturn

NextSession == \E raw \in SessionPrompts : SessionPatch(raw)

NextGen ==
    \/ \E n \in 0..MaxSections, resp \in Stage1Responses : GenerateStart(n, resp)
    \/ \E resp \in Stage2Responses : Stage2Call(resp)
    \/ GenerateFinish
    \/ GenerateReturn

NextExport == \E slides \in ExportDecks, uuid \in Uuids : export_pptx(slides, uuid)

\* the server after start-up (lines 22-39): no call in progress, EXPORT_DIR
\* holds no artifact of this run; the client may or may not be configured
Init ==
    /\ patchPc = "idle"
    /\ reqSlides = << >>
    /\ reqPrompt = << >>
    /\ resSlides = << >>
    /\ nPatches = 0
    /\ genPc = "idle"
    /\ clientOk \in BOOLEAN
    /\ nSections = 0
    /\ msgLines = << >>
    /\ genIdx = 1
    /\ allSlides = << >>
    /\ callLog = << >>
    /\ files = << >>
    /\ exportLog = << >>

\* a client holding a deck, before its first /patch
InitSession ==
    /\ patchPc = "idle"
    /\ reqSlides = << >>
    /\ reqPrompt = << >>
    /\ resSlides \in RequestDecks
    /\ nPatches = 0
    /\ genPc = "idle"
    /\ clientOk = TRUE
    /\ nSections = 0
    /\ msgLines = << >>
    /\ genIdx = 1
    /\ allSlides = << >>
    /\ callLog = << >>
    /\ files = << >>
    /\ exportLog = << >>

\* /patch calls on arbitrary requests
SpecPatch == Init /\ [][NextPatch]_vars

\* a client session of /patch round trips
SpecSession == InitSession /\ [][NextSession]_vars

\* /generate calls
SpecGen == Init /\ [][NextGen]_vars

\* /export calls
SpecExport == Init /\ [][NextExport]_vars

Next == NextPatch \/ NextGen \/ NextExport
Spec == Init /\ [][Next]_vars

----------------------------------------------------------------------------
(* Properties *)

IsPrefix(a, b) == Len(a) <= Len(b) /\ SubSeq(b, 1, Len(a)) = a

\* the keyword groups of the submitted instruction, matched case-insensitively
DeleteStyle(raw) == HasDelete(Lower(raw))
AddStyle(raw) == ~HasDelete(Lower(raw)) /\ HasAdd(Lower(raw))
RetitleStyle(raw) ==
    ~HasDelete(Lower(raw)) /\ ~HasAdd(Lower(raw)) /\ HasRetitle(Lower(raw))
BulletStyle(raw) ==
    /\ ~HasDelete(Lower(raw)) /\ ~HasAdd(Lower(raw))
    /\ ~HasRetitle(Lower(raw)) /\ HasBullet(Lower(raw))
DefaultStyle(raw) ==
    /\ ~HasDelete(Lower(raw)) /\ ~HasAdd(Lower(raw))
    /\ ~HasRetitle(Lower(raw)) /\ ~HasBullet(Lower(raw))

\* the text of s after its first sep
AfterFirst(s, sep) == SubSeq(s, FirstIndex(s, sep, 1) + 1, Len(s))

\* C1: stage 2 returns one slide per message-line slide, in order, whatever
\* the outcome of each external call: slide i has the title of entry i and
\* its message line as bullets[0].
C1_SameLengthSameOrder ==
    genPc = "done" =>
        /\ Len(allSlides) = Len(msgLines)
        /\ \A i \in 1..Len(msgLines) :
              /\ allSlides[i].title = msgLines[i].title
              /\ allSlides[i].bullets # << >>
              /\ allSlides[i].bullets[1] = msgLines[i].message_line

FailKinds == {"raise", "empty", "text", "wrong_tool"}
Failed(i) == callLog[i].kind \in FailKinds

\* C2: when exactly one of the N stage-2 calls fails (raise, no structured
\* result, wrong tool name) and the others return bullets, the deck has N
\* slides, the failing slide's bullets are [message_line, placeholder] and
\* every other slide's are [message_line] + its extracted bullets.
C2_Isolation ==
    (/\ genPc = "done"
     /\ Cardinality({i \in 1..Len(callLog) : Failed(i)}) = 1
     /\ \A i \in 1..Len(callLog) : Failed(i) \/ callLog[i].kind \in {"tool", "nokey"})
    =>
        /\ Len(allSlides) = Len(msgLines)
        /\ \A i \in 1..Len(msgLines) :
              allSlides[i].bullets =
                  IF Failed(i)
                  THEN << msgLines[i].message_line, Placeholder >>
                  ELSE << msgLines[i].message_line >> \o callLog[i].bullets

\* C3: a /patch call on a deck with at least one slide returns a deck with at
\* least one slide whose first slide is the request's first slide (retitled
\* or with a bullet appended at most), so no sequence of calls removes it; a
\* delete-style instruction removes exactly the last slide of a deck of more
\* than one slide and leaves a one-slide deck unchanged.
C3_DeletionFloor ==
    (nPatches >= 1 /\ Len(reqSlides) >= 1) =>
        /\ Len(resSlides) >= 1
        /\ IsPrefix(reqSlides[1].bullets, resSlides[1].bullets)
        /\ (resSlides[1].title = reqSlides[1].title \/ RetitleStyle(reqPrompt))
        /\ (DeleteStyle(reqPrompt) =>
               resSlides = IF Len(reqSlides) > 1
                           THEN SubSeq(reqSlides, 1, Len(reqSlides) - 1)
                           ELSE reqSlides)

\* a second delete in a session hits the floor: the one-slide deck is kept
C3_Witness ==
    /\ nPatches >= 2
    /\ DeleteStyle(reqPrompt)
    /\ Len(reqSlides) = 1
    /\ resSlides = reqSlides

\* C4: for a non-empty Section sequence /generate either fails or returns at
\* least one slide, each with a non-empty bullets[0]; an empty or missing
\* slides array of stage 1 is a failure, not an empty deck.
C4_GenerateNonEmpty ==
    (genPc = "done" /\ nSections >= 1) =>
        /\ Len(allSlides) >= 1
        /\ \A i \in 1..Len(allSlides) :
              /\ allSlides[i].bullets # << >>
              /\ allSlides[i].bullets[1] # << >>

\* C5: routing is first match wins in the order delete > add > retitle >
\* bullet/content > default: the returned deck is the effect of the
\* highest-priority rule whose keywords the instruction contains, and of no
\* other rule.
C5_FirstMatchWins ==
    patchPc = "done" =>
        LET p == Lower(reqPrompt)
            d == HasDelete(p)
            a == HasAdd(p)
            r == HasRetitle(p)
            b == HasBullet(p)
        IN  /\ d => resSlides = DeleteBranch(reqSlides)
            /\ (~d /\ a) => resSlides = AddBranch(reqSlides)
            /\ (~d /\ ~a /\ r) => resSlides = RetitleBranch(reqSlides, p)
            /\ (~d /\ ~a /\ ~r /\ b) => resSlides = BulletBranch(reqSlides, p)
            /\ (~d /\ ~a /\ ~r /\ ~b) => resSlides = DefaultBranch(reqSlides, reqPrompt)

\* an instruction with a delete and an add keyword only deletes
C5_Witness ==
    /\ patchPc = "done"
    /\ HasDelete(Lower(reqPrompt))
    /\ HasAdd(Lower(reqPrompt))
    /\ Len(reqSlides) > 1
    /\ resSlides = SubSeq(reqSlides, 1, Len(reqSlides) - 1)

\* C6 as claimed: patching an empty deck returns an empty deck for every
\* instruction.
C6_EmptyDeckNoOp ==
    (patchPc = "done" /\ reqSlides = << >>) => resSlides = << >>

\* C6 as amended: patching an empty deck returns an empty deck unless the add
\* rule fires, and then the deck holding the one new placeholder slide.
C6_EmptyDeckNoOpButAdd ==
    (patchPc = "done" /\ reqSlides = << >>) =>
        resSlides = IF AddStyle(reqPrompt) THEN << NewSlide >> ELSE << >>

\* the default rule fired on an empty deck and returned it empty
C6_Witness ==
    /\ patchPc = "done"
    /\ reqSlides = << >>
    /\ DefaultStyle(reqPrompt)
    /\ reqPrompt # << >>
    /\ resSlides = << >>

\* C7: no two /export calls write the same artifact name, so every returned
\* name keeps resolving to the document of the call that returned it.
C7_UniqueNames ==
    /\ \A i, j \in 1..Len(exportLog) :
          (i # j /\ exportLog[i].ok /\ exportLog[j].ok) =>
              exportLog[i].filename # exportLog[j].filename
    /\ \A i \in 1..Len(exportLog) :
          exportLog[i].ok => files[exportLog[i].filename] = exportLog[i].units

\* the text of a paragraph: its runs, a line break read as a line feed
RECURSIVE ElemsText(_)
ElemsText(elems) ==
    IF elems = << >> THEN << >>
    ELSE (IF Head(elems).kind = "r" THEN Head(elems).text ELSE << LineFeed >>)
         \o ElemsText(Tail(elems))

\* C8: every export succeeds with one slide unit per input slide, in order;
\* a slide with bullets has bullets[0] as the first, bold run of its body
\* and then one non-bold level-0 paragraph per further bullet, holding that
\* bullet's text; a slide without bullets has a title and no body text.
C8_ExportMapping ==
    \A k \in 1..Len(exportLog) :
        LET e == exportLog[k] IN
        /\ e.ok
        /\ Len(e.units) = Len(e.slides)
        /\ \A i \in 1..Len(e.slides) :
              LET bs == e.slides[i].bullets
                  body == e.units[i].body
              IN  /\ e.units[i].title = e.slides[i].title
                  /\ bs = << >> => \A j \in 1..Len(body) : body[j].elems = << >>
                  /\ bs # << >> =>
                        /\ Len(body) = Len(bs)
                        /\ body[1].elems # << >>
                        /\ body[1].elems[1] = Run(bs[1], TRUE)
                        /\ \A j \in 2..Len(bs) :
                              /\ body[j].level = 0
                              /\ ElemsText(body[j].elems) = bs[j]
                              /\ \A n \in 1..Len(body[j].elems) :
                                    ~body[j].elems[n].bold

\* C9: when the retitle rule fires with the separator on a non-empty deck,
\* the first slide's title becomes the submitted text after the separator,
\* trimmed, case preserved, and nothing else changes; without the separator
\* or on an empty deck the deck is unchanged.
C9_RetitleExact ==
    (patchPc = "done" /\ RetitleStyle(reqPrompt)) =>
        resSlides =
            IF reqSlides # << >> /\ Contains(reqPrompt, Arrow)
            THEN [reqSlides EXCEPT ![1].title = Strip(AfterFirst(reqPrompt, Arrow))]
            ELSE reqSlides

\* C10: when the bullet/content rule fires on a deck of more than one slide,
\* the instruction without its "bullet" and "content" keywords, trimmed, is
\* appended to the last slide unless it is empty; a deck of zero or one slide
\* is unchanged.
C10_BulletRemainder ==
    (patchPc = "done" /\ BulletStyle(reqPrompt)) =>
        LET rest == Strip(Replace(Replace(reqPrompt, KwBullet), KwContent)) IN
        resSlides =
            IF Len(reqSlides) > 1 /\ rest # << >>
            THEN [reqSlides EXCEPT ![Len(reqSlides)].bullets = Append(@, rest)]
            ELSE reqSlides

====
